---- MODULE Spec2Model ----
(***************************************************************************)
(* KusinaBuddy (src/app.py): a Flask front end to a hosted generative      *)
(* model.  The module models                                               *)
(*   - module initialisation: the GEMINI_API_KEY test, the two definitions *)
(*     of pick_model and the two assignments of gemini_model;              *)
(*   - the request handlers generate, weekplan and health.                 *)
(* Python strings are sequences of tokens: a fixed literal of the source   *)
(* is one token, a character of user or model text is one token; a        *)
(* non-ASCII character of a literal is written as its code point, <U+...>. *)
(* Python and JSON values are records tagged by their type in field t.     *)
(***************************************************************************)
EXTENDS Integers, Sequences, FiniteSets

VARIABLES
    apiKey,        \* whether os.getenv("GEMINI_API_KEY") is truthy (line 29)
    gemini_model,  \* the module global: Unbound, None, or the name the handle is bound to
    pc,            \* position of the process
    run,           \* which definition of pick_model is executing: 1 (line 44) or 2 (line 86)
    idx,           \* loop index of the executing for loop of pick_model
    available,     \* pick_model's local: list(genai.list_models())
    supported,     \* pick_model's local: the entries of available that pass the filter
    probed,        \* the generate_content("ping") calls of the executing pick_model, in order
    ret,           \* what the executing pick_model returned (or that it raised)
    printed,       \* the last line the startup code printed
    req,           \* the request being answered
    resp           \* the response to it

vars == <<apiKey, gemini_model, pc, run, idx, available, supported, probed, ret, printed, req, resp>>

-----------------------------------------------------------------------------
(* Bounds of the model *)

MaxListed == 2     \* length of the list genai.list_models() returns
MaxLen == 2        \* length of a request's string field, in characters
MaxParts == 3      \* number of parts in a structured model response

-----------------------------------------------------------------------------
(* Values *)

Unbound == "Unbound"     \* the name gemini_model is not assigned yet
None == "None"
\* pick_model ended by raising RuntimeError (lines 108 and 110)
RaiseListing == "RuntimeError: Could not list models"
RaiseNoModel == "RuntimeError: No available Gemini model supports generateContent for this API key."

NoneV == [t |-> "None"]
StrV(s) == [t |-> "str", s |-> s]
NumV(n) == [t |-> "num", n |-> n]
BoolV(b) == [t |-> "bool", b |-> b]
ArrV(a) == [t |-> "arr", a |-> a]
ObjV(o) == [t |-> "obj", o |-> o]
ErrV(m) == [t |-> "raises", m |-> m]

\* Strings over the characters (all of them of length at most n)
Chars == {" ", "a"}
RECURSIVE Strings(_)
Strings(n) ==
    IF n = 0 THEN {<<>>}
    ELSE LET shorter == Strings(n - 1)
         IN  shorter \cup {Append(s, c) : s \in {x \in shorter : Len(x) = n - 1}, c \in Chars}

-----------------------------------------------------------------------------
(* Startup: the model resolver *)

PREFERRED_MODELS ==
    << "models/gemini-1.5-flash-latest", "models/gemini-1.5-pro", "models/gemini-1.0-pro" >>

\* What the provider may list: a name and its supported_generation_methods
ListedModels ==
    { [name |-> "models/gemini-2.0-flash", supported_generation_methods |-> {"generateContent", "countTokens"}],
      [name |-> "models/gemini-2.5-pro", supported_generation_methods |-> {"generateContent"}],
      [name |-> "models/embedding-001", supported_generation_methods |-> {"embedContent"}] }

RECURSIVE SeqsUpTo(_, _)
SeqsUpTo(S, n) ==
    IF n = 0 THEN {<<>>}
    ELSE LET shorter == SeqsUpTo(S, n - 1)
         IN  shorter \cup {Append(s, e) : s \in {x \in shorter : Len(x) = n - 1}, e \in S}

Listings == SeqsUpTo(ListedModels, MaxListed)

\* The filter of lines 54-57 and 99
RECURSIVE Supported(_)
Supported(avail) ==
    IF avail = <<>> THEN <<>>
    ELSE IF "generateContent" \in Head(avail).supported_generation_methods
         THEN <<Head(avail)>> \o Supported(Tail(avail))
         ELSE Supported(Tail(avail))

\* How pick_model ends when listing raised and when no candidate is left: the
\* first definition prints and returns None (lines 65-67), the second raises
\* (lines 108, 110)
ListingFailed(r) == IF r = 1 THEN None ELSE RaiseListing
Exhausted(r) == IF r = 1 THEN None ELSE RaiseNoModel

Init ==
    /\ apiKey \in BOOLEAN
    /\ gemini_model = Unbound
    /\ pc = "start"
    /\ run = 0
    /\ idx = 0
    /\ available = <<>>
    /\ supported = <<>>
    /\ probed = <<>>
    /\ ret = None
    /\ printed = "nothing"
    /\ req = [endpoint |-> "none"]
    /\ resp = [status |-> 0]

\* Lines 29-35: without a key gemini_model = None and the first pick_model is
\* neither defined nor called; with a key the first pick_model is called (line 70).
\* Either way execution goes on to line 79.
Start ==
    /\ pc = "start"
    /\ IF apiKey
       THEN /\ run' = 1
            /\ UNCHANGED <<gemini_model, printed>>
       ELSE /\ run' = 2
            /\ gemini_model' = None
            /\ printed' = "<U+26A0 U+FE0F> GEMINI_API_KEY not found - AI features will be disabled"
    /\ pc' = "pref"
    /\ idx' = 1
    /\ UNCHANGED <<apiKey, available, supported, probed, ret, req, resp>>

\* A probe loop that does not stop at the first success
ProbeResultKeepGoing(cands, i, ok) ==
    [pc |-> "next", ret |-> IF ok THEN cands[i] ELSE None, idx |-> i + 1]

\* One iteration of a probe loop (lines 46-51, 59-64, 89-94, 101-106):
\* GenerativeModel(name) and generate_content("ping") succeed, and pick_model
\* returns the handle, or one of them raises, and the loop continues
ProbeResult(cands, i, ok) ==
    IF ok THEN [pc |-> "ret", ret |-> cands[i], idx |-> i]
    ELSE [pc |-> "next", ret |-> None, idx |-> i + 1]

\* The loop over PREFERRED_MODELS (lines 45-51, 88-94)
ProbePreferred ==
    /\ pc = "pref"
    /\ \E ok \in BOOLEAN :
         LET r == ProbeResult(PREFERRED_MODELS, idx, ok)
         IN  /\ probed' = Append(probed, [name |-> PREFERRED_MODELS[idx], ok |-> ok])
             /\ idx' = r.idx
             /\ ret' = r.ret
             /\ pc' = IF r.pc = "ret" THEN "ret"
                      ELSE IF r.idx > Len(PREFERRED_MODELS) THEN "list" ELSE "pref"
    /\ UNCHANGED <<apiKey, gemini_model, run, available, supported, printed, req, resp>>

\* Lines 53-57 and 98-99: list the provider's models and filter them
ListModels ==
    /\ pc = "list"
    /\ \/ \E avail \in Listings :
            /\ available' = avail
            /\ supported' = Supported(avail)
            /\ idx' = 1
            /\ IF Supported(avail) = <<>>
               THEN pc' = "ret" /\ ret' = Exhausted(run)
               ELSE pc' = "supp" /\ ret' = ret
            /\ UNCHANGED printed
       \/ \* genai.list_models() raises (lines 65-66, 107-108)
          /\ pc' = "ret"
          /\ ret' = ListingFailed(run)
          /\ printed' = IF run = 1 THEN "<U+26A0 U+FE0F> Could not list models:" ELSE printed
          /\ UNCHANGED <<available, supported, idx>>
    /\ UNCHANGED <<apiKey, gemini_model, run, probed, req, resp>>

\* The loop over supported (lines 58-64, 100-106)
ProbeSupported ==
    /\ pc = "supp"
    /\ \E ok \in BOOLEAN :
         LET names == [i \in 1..Len(supported) |-> supported[i].name]
             r == ProbeResult(names, idx, ok)
         IN  /\ probed' = Append(probed, [name |-> names[idx], ok |-> ok])
             /\ idx' = r.idx
             /\ IF r.pc = "ret"
                THEN pc' = "ret" /\ ret' = r.ret
                ELSE IF r.idx > Len(supported)
                     THEN pc' = "ret" /\ ret' = Exhausted(run)
                     ELSE pc' = "supp" /\ ret' = r.ret
    /\ UNCHANGED <<apiKey, gemini_model, run, available, supported, printed, req, resp>>

\* Lines 69-77: gemini_model = pick_model() of the first definition, which
\* returns a handle or None; execution then reaches the second definition
\* (line 86) and its call (line 115)
AssignFirst ==
    /\ pc = "ret"
    /\ run = 1
    /\ gemini_model' = ret
    /\ printed' = IF ret # None THEN "<U+2705> Gemini model loaded successfully"
                  ELSE "<U+26A0 U+FE0F> No suitable Gemini model found - AI features disabled"
    /\ run' = 2
    /\ pc' = "pref"
    /\ idx' = 1
    /\ available' = <<>>
    /\ supported' = <<>>
    /\ probed' = <<>>
    /\ ret' = None
    /\ UNCHANGED <<apiKey, req, resp>>

\* A startup without the try of line 114: the RuntimeError escapes
StartupResultUncaught(r) ==
    IF r \in {RaiseListing, RaiseNoModel}
    THEN [pc |-> "crashed", model |-> gemini_model, printed |-> r]
    ELSE [pc |-> "serving", model |-> r, printed |-> "<U+2705> Gemini model loaded successfully"]

\* Lines 114-119: gemini_model = pick_model() of the second definition; the
\* except clause prints its RuntimeError and sets gemini_model = None
StartupResult(r) ==
    IF r \in {RaiseListing, RaiseNoModel}
    THEN [pc |-> "serving", model |-> None, printed |-> r]
    ELSE [pc |-> "serving", model |-> r, printed |-> "<U+2705> Gemini model loaded successfully"]

AssignSecond ==
    /\ pc = "ret"
    /\ run = 2
    /\ gemini_model' = StartupResult(ret).model
    /\ pc' = StartupResult(ret).pc
    /\ printed' = StartupResult(ret).printed
    /\ idx' = 0
    /\ available' = <<>>
    /\ supported' = <<>>
    /\ probed' = <<>>
    /\ ret' = None
    /\ UNCHANGED <<apiKey, run, req, resp>>

-----------------------------------------------------------------------------
(* Python helpers *)

Whitespace == {" ", "\n", "\t"}

\* str.strip() that strips nothing
NoStrip(s) == s

\* str.strip(): drop leading and trailing whitespace
RECURSIVE Strip(_)
Strip(s) ==
    IF s = <<>> THEN s
    ELSE IF Head(s) \in Whitespace THEN Strip(Tail(s))
    ELSE IF s[Len(s)] \in Whitespace THEN Strip(SubSeq(s, 1, Len(s) - 1))
    ELSE s

\* "\n".join(parts)
RECURSIVE Join(_)
Join(parts) ==
    IF parts = <<>> THEN <<>>
    ELSE IF Len(parts) = 1 THEN parts[1]
    ELSE parts[1] \o <<"\n">> \o Join(Tail(parts))

\* Python truth value
Truthy(v) ==
    CASE v.t = "None" -> FALSE
      [] v.t = "bool" -> v.b
      [] v.t = "num" -> v.n # 0
      [] v.t = "str" -> v.s # <<>>
      [] v.t = "arr" -> v.a # <<>>
      [] v.t = "obj" -> DOMAIN v.o # {}
      [] OTHER -> TRUE

-----------------------------------------------------------------------------
(* Requests and what the model may answer *)

\* Request bodies: none, one that is not JSON, or a JSON value
JsonScalars ==
    {NoneV, BoolV(FALSE), BoolV(TRUE), NumV(0), NumV(7), ArrV(<<>>), ArrV(<<NumV(7)>>)}
    \cup {StrV(s) : s \in Strings(MaxLen)}

JsonObjects ==
    {ObjV(<<>>)} \cup {ObjV([k \in {key} |-> v]) : key \in {"query", "ingredients"}, v \in JsonScalars}

Bodies ==
    {[k |-> "absent"], [k |-> "malformed"]}
    \cup {[k |-> "json", v |-> v] : v \in JsonScalars \cup JsonObjects}

Messages == {<<"429 quota exceeded">>, <<"deadline exceeded">>}

\* A part of a candidate's content: its text is None or a string
PartTexts == {NoneV} \cup {StrV(s) : s \in {<<>>, <<" ">>, <<"a">>, <<" ", "a">>}}
Parts == {[text |-> t] : t \in PartTexts}

Candidate(ps) == [content |-> [t |-> "content", parts |-> ArrV(ps)]]

\* The ways to cut a sequence of parts into candidates of at least one part
RECURSIVE Splits(_)
Splits(ps) ==
    IF ps = <<>> THEN {<<>>}
    ELSE UNION { { <<Candidate(SubSeq(ps, 1, k))>> \o r : r \in Splits(SubSeq(ps, k + 1, Len(ps))) }
                 : k \in 1..Len(ps) }

PartA == [text |-> StrV(<<"a">>)]
PartBlank == [text |-> StrV(<<" ">>)]

\* Responses with no direct text: every grouping of up to MaxParts parts, and
\* the degenerate shapes the getattr defaults and "or []" of lines 176-177 absorb
StructuredResponses ==
    {[text |-> NoneV, candidates |-> ArrV(cs)] :
        cs \in UNION {Splits(ps) : ps \in SeqsUpTo(Parts, MaxParts)}}
    \cup
    {[text |-> t, candidates |-> c] :
        t \in {NoneV, StrV(<<>>)},
        c \in { NoneV,
                ArrV(<<[content |-> NoneV], Candidate(<<PartA>>)>>),
                ArrV(<<Candidate(<<PartA>>), [content |-> [t |-> "content", parts |-> NoneV]]>>),
                ArrV(<<Candidate(<<>>), Candidate(<<PartBlank, PartA>>), Candidate(<<PartA, PartBlank>>)>>) }}

\* Responses with a direct text, and responses whose text property raises
DirectResponses ==
    {[text |-> StrV(s), candidates |-> NoneV] : s \in Strings(MaxLen) \ {<<>>}}
    \cup {[text |-> ErrV(m), candidates |-> NoneV] : m \in Messages}

\* generate_content(prompt) raises with a message or returns a response
ModelOutcomes ==
    {[k |-> "raise", m |-> m] : m \in Messages}
    \cup {[k |-> "response", r |-> r] : r \in StructuredResponses \cup DirectResponses}

\* generate_content("ping") of /health returns or raises
ProbeOutcomes ==
    {[k |-> "raise", m |-> m] : m \in Messages} \cup {[k |-> "response", r |-> [text |-> StrV(<<"pong">>), candidates |-> NoneV]]}

NoOutcome == [k |-> "not called"]

-----------------------------------------------------------------------------
(* The handlers *)

WarnRecipe == <<"<U+26A0 U+FE0F> Please enter an ingredient or dish name.">>
WarnPlan == <<"<U+26A0 U+FE0F> Please enter some ingredients for the weekly plan.">>
Unavailable == <<"<U+274C> AI model is not available. Check your API key or model configuration.">>
ErrRecipe == <<"<U+274C> Error generating recipe: ">>
ErrPlan == <<"<U+274C> Error generating weekly plan: ">>
EmptyResponse == <<"Empty response from model.">>
NoneTypeError == <<"'NoneType' object has no attribute 'generate_content'">>

\* jsonify({key: text}), HTTP 200; calls counts the generate_content calls made
Json200(key, text, calls) ==
    [status |-> 200, kind |-> "json", body |-> [k \in {key} |-> text], calls |-> calls]

\* An exception no handler catches: Flask answers 500 with an HTML page
Unhandled500 ==
    [status |-> 500, kind |-> "html", body |-> [k \in {"html"} |-> <<"Internal Server Error">>], calls |-> 0]

\* Line 146 (193): request.get_json(silent=True) or {}
GetData(body) ==
    LET parsed == IF body.k = "json" THEN body.v ELSE NoneV
    IN  IF Truthy(parsed) THEN parsed ELSE ObjV(<<>>)

\* Line 147 (194): data.get(field, "").strip(); data without get, or a value
\* without strip, raises AttributeError outside the try
GetField(data, field) ==
    IF data.t # "obj" THEN ErrV(<<"AttributeError">>)
    ELSE LET raw == IF field \in DOMAIN data.o THEN data.o[field] ELSE StrV(<<>>)
         IN  IF raw.t # "str" THEN ErrV(<<"AttributeError">>)
             ELSE StrV(Strip(raw.s))

\* A handler that does not look at gemini_model before using it
ModelAvailableUnchecked(model) == TRUE

\* Line 153 (200): if not gemini_model
ModelAvailable(model) == model # None

\* gemini_model.generate_content(...): on None the attribute access raises
CallModel(model, out) ==
    IF model = None THEN [k |-> "raise", m |-> NoneTypeError] ELSE out

\* Parts collected from the first candidate only
RECURSIVE CollectPartsFirstOnly(_)
CollectPartsFirstOnly(cands) ==
    IF cands = <<>> THEN <<>>
    ELSE LET content == Head(cands).content
             ps == IF content.t = "None" THEN <<>>
                   ELSE IF Truthy(content.parts) THEN content.parts.a ELSE <<>>
         IN  SelectSeq([i \in 1..Len(ps) |-> ps[i].text], Truthy)

\* Lines 175-179 (214-218): the texts of the parts that have one, candidate by
\* candidate and part by part
RECURSIVE CollectParts(_)
CollectParts(cands) ==
    IF cands = <<>> THEN <<>>
    ELSE LET content == Head(cands).content
             ps == IF content.t = "None" THEN <<>>
                   ELSE IF Truthy(content.parts) THEN content.parts.a ELSE <<>>
         IN  SelectSeq([i \in 1..Len(ps) |-> ps[i].text], Truthy) \o CollectParts(Tail(cands))

\* Lines 173-180 (212-219): the direct text, else the joined part texts, else None
ExtractText(response) ==
    IF Truthy(response.text) THEN response.text
    ELSE LET cands == IF Truthy(response.candidates) THEN response.candidates.a ELSE <<>>
             texts == CollectParts(cands)
             parts == [i \in 1..Len(texts) |-> texts[i].s]
         IN  IF parts # <<>> THEN StrV(Strip(Join(parts))) ELSE NoneV

\* An error string that leaves the exception's message out
ErrorTextGeneric(prefix, m) == prefix

\* Line 188 (227): the f-string of the except clause
ErrorText(prefix, m) == prefix \o m

\* Lines 156-188 (203-227): the try block, one generate_content call
Generation(key, prefix, model, out) ==
    LET got == CallModel(model, out)
        calls == IF model = None THEN 0 ELSE 1
    IN  IF got.k = "raise" THEN Json200(key, ErrorText(prefix, got.m), calls)
        ELSE IF got.r.text.t = "raises" THEN Json200(key, ErrorText(prefix, got.r.text.m), calls)
        ELSE LET text == ExtractText(got.r)
             IN  IF ~Truthy(text) THEN Json200(key, prefix \o EmptyResponse, calls)
                 ELSE Json200(key, text.s, calls)

\* Lines 146-154 (193-201): what the handler answers before the try block, or
\* "go" when it enters the try block
Validate(field, key, warning, body, model) ==
    LET q == GetField(GetData(body), field)
    IN  IF q.t = "raises" THEN [go |-> FALSE, resp |-> Unhandled500]
        ELSE IF ~Truthy(q) THEN [go |-> FALSE, resp |-> Json200(key, warning, 0)]
        ELSE IF ~ModelAvailable(model) THEN [go |-> FALSE, resp |-> Json200(key, Unavailable, 0)]
        ELSE [go |-> TRUE, resp |-> NoneV]

Field(endpoint) == IF endpoint = "generate" THEN "query" ELSE "ingredients"
Key(endpoint) == IF endpoint = "generate" THEN "result" ELSE "plan"
Warning(endpoint) == IF endpoint = "generate" THEN WarnRecipe ELSE WarnPlan
ErrPrefix(endpoint) == IF endpoint = "generate" THEN ErrRecipe ELSE ErrPlan

\* A request to /generate or /weekplan, from its arrival to its response
Handle(endpoint) ==
    /\ pc = "serving"
    /\ \E body \in Bodies :
         LET v == Validate(Field(endpoint), Key(endpoint), Warning(endpoint), body, gemini_model)
         IN  IF v.go
             THEN \E out \in ModelOutcomes :
                    /\ resp' = Generation(Key(endpoint), ErrPrefix(endpoint), gemini_model, out)
                    /\ req' = [endpoint |-> endpoint, body |-> body, out |-> out]
             ELSE /\ resp' = v.resp
                  /\ req' = [endpoint |-> endpoint, body |-> body, out |-> NoOutcome]
    /\ pc' = "responded"
    /\ UNCHANGED <<apiKey, gemini_model, run, idx, available, supported, probed, ret, printed>>

\* POST /generate (lines 144-188)
generate == Handle("generate")

\* POST /weekplan (lines 191-227)
weekplan == Handle("weekplan")

\* A health check that forgets the status code of line 235
HealthResponseNo500(model, out) ==
    LET got == CallModel(model, out)
    IN  IF got.k = "raise"
        THEN [status |-> 200, kind |-> "json",
              body |-> [status |-> <<"error">>, detail |-> got.m], calls |-> 1]
        ELSE [status |-> 200, kind |-> "json", body |-> [status |-> <<"ok">>], calls |-> 1]

\* Lines 231-235
HealthResponse(model, out) ==
    LET got == CallModel(model, out)
        calls == IF model = None THEN 0 ELSE 1
    IN  IF got.k = "raise"
        THEN [status |-> 500, kind |-> "json",
              body |-> [status |-> <<"error">>, detail |-> got.m], calls |-> calls]
        ELSE [status |-> 200, kind |-> "json", body |-> [status |-> <<"ok">>], calls |-> calls]

\* GET /health (lines 229-235)
health ==
    /\ pc = "serving"
    /\ \E out \in ProbeOutcomes :
         /\ resp' = HealthResponse(gemini_model, out)
         /\ req' = [endpoint |-> "health", body |-> [k |-> "absent"], out |-> out]
    /\ pc' = "responded"
    /\ UNCHANGED <<apiKey, gemini_model, run, idx, available, supported, probed, ret, printed>>

\* The response is sent; the request's values are dropped
Respond ==
    /\ pc = "responded"
    /\ pc' = "serving"
    /\ req' = [endpoint |-> "none"]
    /\ resp' = [status |-> 0]
    /\ UNCHANGED <<apiKey, gemini_model, run, idx, available, supported, probed, ret, printed>>

Next ==
    \/ Start
    \/ ProbePreferred
    \/ ListModels
    \/ ProbeSupported
    \/ AssignFirst
    \/ AssignSecond
    \/ generate
    \/ weekplan
    \/ health
    \/ Respond

Spec == Init /\ [][Next]_vars

-----------------------------------------------------------------------------
(* Properties *)

Answered == pc = "responded" /\ req.endpoint \in {"generate", "weekplan"}

\* How a request body looks to a caller, for the field f of the endpoint
BlankString(s) == \A i \in 1..Len(s) : s[i] \in {" ", "\n", "\t"}
HasObject(body) == body.k = "json" /\ body.v.t = "obj"
FieldMissing(body, f) == body.k # "json" \/ (HasObject(body) /\ f \notin DOMAIN body.v.o)
FieldString(body, f) == HasObject(body) /\ f \in DOMAIN body.v.o /\ body.v.o[f].t = "str"
FieldBlank(body, f) == FieldMissing(body, f) \/ (FieldString(body, f) /\ BlankString(body.v.o[f].s))
FieldText(body, f) == FieldString(body, f) /\ ~BlankString(body.v.o[f].s)

OneField(key, text) == [k \in {key} |-> text]

\* C1: every POST to /generate or /weekplan, whatever its body and whatever the
\* model does, is answered with HTTP 200 and a JSON object of exactly one
\* field, result or plan
C1_Always200 ==
    Answered =>
        /\ resp.status = 200
        /\ resp.kind = "json"
        /\ DOMAIN resp.body = {Key(req.endpoint)}

\* C2 as claimed: with no model handle, every input, an empty, whitespace-only
\* or missing field included, gets the unavailability string
C2_UnavailableForEveryInput ==
    (/\ Answered
     /\ gemini_model = None
     /\ \/ FieldBlank(req.body, Field(req.endpoint))
        \/ FieldText(req.body, Field(req.endpoint)))
    => resp.body = OneField(Key(req.endpoint), Unavailable)

\* C2 as amended: with no model handle, every input whose field is a string
\* that is not empty after trimming gets the unavailability string, HTTP 200
C2_UnavailableForText ==
    (Answered /\ gemini_model = None /\ FieldText(req.body, Field(req.endpoint)))
    => /\ resp.status = 200
       /\ resp.kind = "json"
       /\ resp.body = OneField(Key(req.endpoint), Unavailable)

C2_Witness ==
    /\ Answered
    /\ gemini_model = None
    /\ FieldText(req.body, Field(req.endpoint))
    /\ req.endpoint = "weekplan"
    /\ resp.body = OneField("plan", Unavailable)

\* C3: for a non-empty input and a resolved model, the handler makes exactly
\* one generation call, and when that call raises with message M it answers
\* HTTP 200 with the endpoint's error prefix followed by M
C3_ErrorAsData ==
    (Answered /\ gemini_model # None /\ FieldText(req.body, Field(req.endpoint)))
    => /\ resp.calls = 1
       /\ req.out.k = "raise" =>
            /\ resp.status = 200
            /\ resp.kind = "json"
            /\ resp.body = OneField(Key(req.endpoint),
                                    (IF req.endpoint = "generate"
                                     THEN <<"<U+274C> Error generating recipe: ">>
                                     ELSE <<"<U+274C> Error generating weekly plan: ">>) \o req.out.m)

C3_Witness ==
    /\ Answered
    /\ gemini_model # None
    /\ req.endpoint = "generate"
    /\ req.out.k = "raise"
    /\ resp.calls = 1
    /\ resp.body = OneField("result", <<"<U+274C> Error generating recipe: ">> \o req.out.m)

\* The non-empty part texts of a response, candidate by candidate, part by part
C4_PartsOf(cand) ==
    IF cand.content.t = "None" THEN <<>>
    ELSE IF cand.content.parts.t = "None" THEN <<>>
    ELSE cand.content.parts.a

C4_HasText(p) == p.text.t = "str" /\ Len(p.text.s) > 0

RECURSIVE C4_Texts(_)
C4_Texts(cands) ==
    IF Len(cands) = 0 THEN <<>>
    ELSE LET kept == SelectSeq(C4_PartsOf(cands[1]), C4_HasText)
         IN  [i \in 1..Len(kept) |-> kept[i].text.s] \o C4_Texts(Tail(cands))

\* The request was answered from a response with no direct text and at least
\* one non-empty part text
C4_Structured ==
    /\ Answered
    /\ req.out.k = "response"
    /\ \/ req.out.r.text.t = "None"
       \/ req.out.r.text.t = "str" /\ req.out.r.text.s = <<>>
    /\ req.out.r.candidates.t = "arr"
    /\ C4_Texts(req.out.r.candidates.a) # <<>>

\* C4 as claimed: the output is exactly the newline-joined non-empty part texts
C4_OutputIsJoin ==
    C4_Structured =>
        resp.body = OneField(Key(req.endpoint), Join(C4_Texts(req.out.r.candidates.a)))

\* C4 as amended: the output is the newline-joined non-empty part texts with
\* leading and trailing whitespace stripped from the joined string, and the
\* empty-response error string when nothing is left after stripping
C4_OutputIsStrippedJoin ==
    C4_Structured =>
        LET joined == Strip(Join(C4_Texts(req.out.r.candidates.a)))
        IN  /\ resp.status = 200
            /\ resp.body = OneField(Key(req.endpoint),
                                    IF joined = <<>>
                                    THEN ErrPrefix(req.endpoint) \o <<"Empty response from model.">>
                                    ELSE joined)

C4_Witness ==
    /\ C4_Structured
    /\ Len(req.out.r.candidates.a) >= 2
    /\ Len(C4_Texts(req.out.r.candidates.a)) >= 3
    /\ Join(C4_Texts(req.out.r.candidates.a)) # Strip(Join(C4_Texts(req.out.r.candidates.a)))
    /\ resp.body = OneField(Key(req.endpoint), <<"a", "\n", " ", "\n", "a">>)

\* C5: an empty, whitespace-only or missing field gets the endpoint's warning,
\* HTTP 200, and the model is not invoked, with or without a resolved handle
C5_WarningWithoutCall ==
    (Answered /\ FieldBlank(req.body, Field(req.endpoint)))
    => /\ resp.status = 200
       /\ resp.kind = "json"
       /\ resp.body = OneField(Key(req.endpoint),
                               IF req.endpoint = "generate"
                               THEN <<"<U+26A0 U+FE0F> Please enter an ingredient or dish name.">>
                               ELSE <<"<U+26A0 U+FE0F> Please enter some ingredients for the weekly plan.">>)
       /\ resp.calls = 0
       /\ req.out = NoOutcome

C5_Witness ==
    /\ Answered
    /\ gemini_model # None
    /\ req.endpoint = "generate"
    /\ FieldString(req.body, "query")
    /\ req.body.v.o["query"].s = <<" ", " ">>
    /\ resp.body = OneField("result", WarnRecipe)
    /\ resp.calls = 0

\* C6: /health answers 200 {"status": "ok"} exactly when the probe of the
\* resolved handle succeeds, and 500 {"status": "error", "detail": message}
\* when it raises, which it does when no handle was resolved
C6_HealthStatus ==
    (pc = "responded" /\ req.endpoint = "health")
    => LET ok == gemini_model # None /\ req.out.k = "response"
       IN  /\ resp.status \in {200, 500}
           /\ ok => resp.status = 200 /\ resp.body = [status |-> <<"ok">>]
           /\ ~ok => /\ resp.status = 500
                     /\ resp.body = [status |-> <<"error">>,
                                     detail |-> IF gemini_model = None
                                                THEN NoneTypeError ELSE req.out.m]

C6_Witness ==
    /\ pc = "responded"
    /\ req.endpoint = "health"
    /\ gemini_model = None
    /\ req.out.k = "response"
    /\ resp.status = 500

\* The cascade: the preferred names, then the listed models that declare
\* generateContent, in the listed order
C7_Capable(m) == "generateContent" \in m.supported_generation_methods

C7_Order ==
    LET capable == SelectSeq(available, C7_Capable)
    IN  PREFERRED_MODELS \o [i \in 1..Len(capable) |-> capable[i].name]

InPickModel == pc \in {"pref", "list", "supp", "ret"}

\* C7: a pick_model call probes the candidates in cascade order; every probe
\* before the last one failed; a probe that succeeds is the last one and
\* pick_model returns the handle bound to its candidate
C7_Cascade ==
    InPickModel =>
        /\ Len(probed) <= Len(C7_Order)
        /\ \A i \in 1..Len(probed) : probed[i].name = C7_Order[i]
        /\ \A i \in 1..(Len(probed) - 1) : ~probed[i].ok
        /\ (probed # <<>> /\ probed[Len(probed)].ok)
             => pc = "ret" /\ ret = probed[Len(probed)].name
        /\ (pc = "ret" /\ ret \notin {None, RaiseListing, RaiseNoModel})
             => probed # <<>> /\ probed[Len(probed)].ok

C7_Witness ==
    /\ pc = "ret"
    /\ Len(available) = 2
    /\ ~C7_Capable(available[1])
    /\ Len(probed) = Len(PREFERRED_MODELS) + 1
    /\ probed[Len(probed)].ok
    /\ ret = available[2].name

\* pick_model has ended and none of its probes succeeded
C8_AllFailed == pc = "ret" /\ \A i \in 1..Len(probed) : ~probed[i].ok

\* C8: when every probe of a pick_model call failed, or listing raised, the
\* assignment that follows leaves gemini_model = None and initialisation goes
\* on: to the second definition after the first call, to serving after the second
C8_AbsentNotFatal ==
    [][C8_AllFailed =>
         /\ gemini_model' = None
         /\ pc' = IF run = 1 THEN "pref" ELSE "serving"]_vars

C8_Witness ==
    /\ pc = "serving"
    /\ apiKey
    /\ gemini_model = None
    /\ printed = RaiseNoModel

\* C9: without GEMINI_API_KEY the handle is absent once startup has completed,
\* and every non-empty request gets the unavailability string without a call
C9_NoKeyNoModel ==
    (~apiKey /\ pc \in {"serving", "responded"})
    => /\ gemini_model = None
       /\ (Answered /\ FieldText(req.body, Field(req.endpoint)))
            => resp.body = OneField(Key(req.endpoint), Unavailable) /\ resp.calls = 0

\* The first resolution attempt of the process has ended: with a key it is
\* the call of line 70, without a key the call of line 115
FirstAttemptEnded ==
    \/ apiKey /\ gemini_model # Unbound
    \/ ~apiKey /\ pc \in {"serving", "responded"}

\* C10: once the first resolution attempt has ended, gemini_model never changes
C10_ResolvedOnce == [][FirstAttemptEnded => gemini_model' = gemini_model]_vars

====
